---- MODULE Spec2Model ----
(***************************************************************************)
(* Model of drivers/tty/serial/8250/8250_ni16550.c: the NI 16550           *)
(* transceiver control (PCR enable bit and wire mode), the PMR capability  *)
(* detector and the clock prescaler register-banking sequence.             *)
(*                                                                         *)
(* Every driver entry point is one atomic action: the driver takes no lock *)
(* of its own and is called with the port serialised by its caller.        *)
(***************************************************************************)
EXTENDS Integers, Sequences, FiniteSets, TLC

VARIABLES
    hw,       \* the UART's byte registers, by name
    rs485,    \* port->rs485, the cached struct serial_rs485
    bound,    \* port->txvr_ops and port->rs485_config are set
    op,       \* history: name of the most recent call
    arg,      \* history: its argument (configuration or prescaler byte)
    ret,      \* history: its return value
    acc,      \* history: the register accesses it made, in order
    pre,      \* history: hw and rs485 as they were when it was called
    start,    \* history: hw and rs485 as they were in the initial state
    lastok,   \* history: <<argument of the last successful configure>>
    atsetup,  \* history: PCR as the latest ni16550_port_setup found it, and
              \* whether a configure has succeeded since
    detect,   \* history: the two latest is_rs232_mode calls that
              \* DetectorCall made, latest first: the registers and cache
              \* each found and what it returned
    excl,     \* the caller holds the port-wide exclusion around each call
    proc      \* per caller: where it is in ni16550_config_prescaler, its locals

vars == <<hw, rs485, bound, op, arg, ret, acc, pre, start, lastok, atsetup,
          detect, excl, proc>>

----------------------------------------------------------------------------
(* Bytes and bit arithmetic on them                                        *)

Byte == 0..255

RECURSIVE BitAnd(_, _)
BitAnd(a, b) ==
    IF a = 0 \/ b = 0 THEN 0
    ELSE (a % 2) * (b % 2) + 2 * BitAnd(a \div 2, b \div 2)

RECURSIVE BitOr(_, _)
BitOr(a, b) ==
    IF a = 0 THEN b
    ELSE IF b = 0 THEN a
    ELSE (IF a % 2 = 1 \/ b % 2 = 1 THEN 1 ELSE 0)
         + 2 * BitOr(a \div 2, b \div 2)

\* ~x as it lands in a uint8_t
BitNot8(x) == 255 - (x % 256)

----------------------------------------------------------------------------
(* Register offsets and bit definitions                                    *)

NI16550_PCR_OFFSET == 15
NI16550_PCR_RS422 == 0
NI16550_PCR_ECHO_RS485 == 1
NI16550_PCR_DTR_RS485 == 2
NI16550_PCR_AUTO_RS485 == 3
NI16550_PCR_WIRE_MODE_MASK == 3
NI16550_PCR_TXVR_ENABLE_BIT == 8
NI16550_PCR_RS485_TERMINATION_BIT == 64

NI16550_PMR_OFFSET == 14
NI16550_PMR_CAP_MASK == 3
NI16550_PMR_NOT_IMPL == 0
NI16550_PMR_CAP_RS232 == 1
NI16550_PMR_CAP_RS485 == 2
NI16550_PMR_CAP_DUAL == 3
NI16550_PMR_MODE_MASK == 16
NI16550_PMR_MODE_RS232 == 0
NI16550_PMR_MODE_RS485 == 16

\* struct serial_rs485 flag bits, with the values of uapi linux/serial.h
SER_RS485_ENABLED == 1
SER_RS485_RTS_ON_SEND == 2
SER_RS485_RX_DURING_TX == 16

\* 16C950 registers, with the values of linux/serial_reg.h
UART_LCR == 3
UART_LCR_CONF_MODE_B == 191
UART_EFR == 2
UART_EFR_ECB == 16
UART_SCR == 7
UART_ICR == 5
UART_CPR == 1

EINVAL == 22

----------------------------------------------------------------------------
(* The register file behind serial_in/serial_out and inb/outb              *)

RegNames == {"PCR", "PMR", "LCR", "EFR", "FCR", "SCR", "ICR", "XON2", "XOFF2"}

\* Which register an offset reaches.  While LCR holds the configuration
\* mode B value the enhanced bank overlays offsets 2, 5 and 7.
Decode(lcr, off) ==
    CASE off = NI16550_PCR_OFFSET -> "PCR"
      [] off = NI16550_PMR_OFFSET -> "PMR"
      [] off = UART_LCR -> "LCR"
      [] off = UART_EFR -> IF lcr = UART_LCR_CONF_MODE_B THEN "EFR" ELSE "FCR"
      [] off = UART_ICR -> IF lcr = UART_LCR_CONF_MODE_B THEN "XON2" ELSE "ICR"
      [] off = UART_SCR -> IF lcr = UART_LCR_CONF_MODE_B THEN "XOFF2" ELSE "SCR"

inb(h, off) == h[Decode(h["LCR"], off)]

outb(h, v, off) == [h EXCEPT ![Decode(h["LCR"], off)] = v]

\* port->serial_in / port->serial_out of an I/O-port mapped 8250
serial_in(h, off) == inb(h, off)

serial_out(h, off, v) == outb(h, v, off)

\* One entry of the access log
RD(off, v) == [kind |-> "r", off |-> off, val |-> v]

WR(off, v) == [kind |-> "w", off |-> off, val |-> v]

----------------------------------------------------------------------------
(* struct serial_rs485: the flags and the two timing fields                *)

\* Largest timing value a caller asks for
MaxDelay == 1

FlagSets ==
    { e + r + x : e \in {0, SER_RS485_ENABLED},
                  r \in {0, SER_RS485_RTS_ON_SEND},
                  x \in {0, SER_RS485_RX_DURING_TX} }

\* The configurations callers pass: every combination of the three flags
\* the driver reads, with timing fields that differ from one another.
Configs ==
    { [flags |-> f,
       delay_rts_before_send |-> d,
       delay_rts_after_send |-> MaxDelay - d] : f \in FlagSets, d \in 0..MaxDelay }

\* Prescaler bytes handed to ni16550_config_prescaler
Prescalers == {8}

----------------------------------------------------------------------------
(* The driver's functions.  Each takes the register file (and the cached   *)
(* configuration where it uses it) and yields the state it leaves, its     *)
(* return value and the register accesses it made.                         *)

\* Slip: the termination bit taken for the transceiver enable bit
ni16550_enable_transceivers_TerminationBit(h) ==
    LET pcr0 == serial_in(h, NI16550_PCR_OFFSET)
        pcr1 == BitOr(pcr0, NI16550_PCR_RS485_TERMINATION_BIT)
    IN  [hw  |-> serial_out(h, NI16550_PCR_OFFSET, pcr1),
         ret |-> 0,
         acc |-> <<RD(NI16550_PCR_OFFSET, pcr0), WR(NI16550_PCR_OFFSET, pcr1)>>]

\* Slip: "pcr = BIT" for "pcr |= BIT"
ni16550_enable_transceivers_Assign(h) ==
    LET pcr0 == serial_in(h, NI16550_PCR_OFFSET)
        pcr1 == NI16550_PCR_TXVR_ENABLE_BIT
    IN  [hw  |-> serial_out(h, NI16550_PCR_OFFSET, pcr1),
         ret |-> 0,
         acc |-> <<RD(NI16550_PCR_OFFSET, pcr0), WR(NI16550_PCR_OFFSET, pcr1)>>]

ni16550_enable_transceivers(h) ==
    LET pcr0 == serial_in(h, NI16550_PCR_OFFSET)
        pcr1 == BitOr(pcr0, NI16550_PCR_TXVR_ENABLE_BIT)
    IN  [hw  |-> serial_out(h, NI16550_PCR_OFFSET, pcr1),
         ret |-> 0,
         acc |-> <<RD(NI16550_PCR_OFFSET, pcr0), WR(NI16550_PCR_OFFSET, pcr1)>>]

\* Slip: "pcr &= BIT" for "pcr &= ~BIT"
ni16550_disable_transceivers_NoInvert(h) ==
    LET pcr0 == serial_in(h, NI16550_PCR_OFFSET)
        pcr1 == BitAnd(pcr0, NI16550_PCR_TXVR_ENABLE_BIT)
    IN  [hw  |-> serial_out(h, NI16550_PCR_OFFSET, pcr1),
         ret |-> 0,
         acc |-> <<RD(NI16550_PCR_OFFSET, pcr0), WR(NI16550_PCR_OFFSET, pcr1)>>]

ni16550_disable_transceivers(h) ==
    LET pcr0 == serial_in(h, NI16550_PCR_OFFSET)
        pcr1 == BitAnd(pcr0, BitNot8(NI16550_PCR_TXVR_ENABLE_BIT))
    IN  [hw  |-> serial_out(h, NI16550_PCR_OFFSET, pcr1),
         ret |-> 0,
         acc |-> <<RD(NI16550_PCR_OFFSET, pcr0), WR(NI16550_PCR_OFFSET, pcr1)>>]

\* flags & bit, as the C condition reads it
FlagSet(flags, bit) == BitAnd(flags, bit) # 0

\* Slip: the auto and DTR encodings exchanged
WireModeBits_AutoDtrSwapped(flags) ==
    IF FlagSet(flags, SER_RS485_ENABLED)
    THEN IF FlagSet(flags, SER_RS485_RX_DURING_TX)
         THEN NI16550_PCR_ECHO_RS485
         ELSE IF FlagSet(flags, SER_RS485_RTS_ON_SEND)
              THEN NI16550_PCR_DTR_RS485
              ELSE NI16550_PCR_AUTO_RS485
    ELSE NI16550_PCR_RS422

\* The wire-mode bits chosen by lines 107-136; reached only when the
\* configuration was not rejected.
WireModeBits(flags) ==
    IF FlagSet(flags, SER_RS485_ENABLED)
    THEN IF FlagSet(flags, SER_RS485_RX_DURING_TX)
         THEN NI16550_PCR_ECHO_RS485
         ELSE IF FlagSet(flags, SER_RS485_RTS_ON_SEND)
              THEN NI16550_PCR_AUTO_RS485
              ELSE NI16550_PCR_DTR_RS485
    ELSE NI16550_PCR_RS422

\* Slip: the two-wire test made outside the ENABLED branch
InvalidTwoWire_AnyMode(flags) ==
    /\ FlagSet(flags, SER_RS485_RX_DURING_TX)
    /\ FlagSet(flags, SER_RS485_RTS_ON_SEND)

\* The test of lines 107-113
InvalidTwoWire(flags) ==
    /\ FlagSet(flags, SER_RS485_ENABLED)
    /\ FlagSet(flags, SER_RS485_RX_DURING_TX)
    /\ FlagSet(flags, SER_RS485_RTS_ON_SEND)

\* Slip: the cleared wire-mode field written out before the flags are
\* validated
ni16550_config_rs485_WriteFirst(h, cache, cfg) ==
    LET pcr0 == serial_in(h, NI16550_PCR_OFFSET)
        pcr1 == BitAnd(pcr0, BitNot8(NI16550_PCR_WIRE_MODE_MASK))
        h1   == serial_out(h, NI16550_PCR_OFFSET, pcr1)
        pcr2 == BitOr(pcr1, WireModeBits(cfg.flags))
    IN  IF InvalidTwoWire(cfg.flags)
        THEN [hw    |-> h1,
              rs485 |-> cache,
              ret   |-> -EINVAL,
              acc   |-> <<RD(NI16550_PCR_OFFSET, pcr0),
                          WR(NI16550_PCR_OFFSET, pcr1)>>]
        ELSE [hw    |-> serial_out(h1, NI16550_PCR_OFFSET, pcr2),
              rs485 |-> cfg,
              ret   |-> 0,
              acc   |-> <<RD(NI16550_PCR_OFFSET, pcr0),
                          WR(NI16550_PCR_OFFSET, pcr1),
                          WR(NI16550_PCR_OFFSET, pcr2)>>]

\* Slip: the cache updated on entry, before the flags are validated
ni16550_config_rs485_CacheFirst(h, cache, cfg) ==
    LET pcr0 == serial_in(h, NI16550_PCR_OFFSET)
        pcr1 == BitAnd(pcr0, BitNot8(NI16550_PCR_WIRE_MODE_MASK))
        pcr2 == BitOr(pcr1, WireModeBits(cfg.flags))
    IN  IF InvalidTwoWire(cfg.flags)
        THEN [hw    |-> h,
              rs485 |-> cfg,
              ret   |-> -EINVAL,
              acc   |-> <<RD(NI16550_PCR_OFFSET, pcr0)>>]
        ELSE [hw    |-> serial_out(h, NI16550_PCR_OFFSET, pcr2),
              rs485 |-> cfg,
              ret   |-> 0,
              acc   |-> <<RD(NI16550_PCR_OFFSET, pcr0),
                          WR(NI16550_PCR_OFFSET, pcr2)>>]

\* Slip: "pcr &= MASK" for "pcr &= ~MASK"
ni16550_config_rs485_NoInvert(h, cache, cfg) ==
    LET pcr0 == serial_in(h, NI16550_PCR_OFFSET)
        pcr1 == BitAnd(pcr0, NI16550_PCR_WIRE_MODE_MASK)
        pcr2 == BitOr(pcr1, WireModeBits(cfg.flags))
    IN  IF InvalidTwoWire(cfg.flags)
        THEN [hw    |-> h,
              rs485 |-> cache,
              ret   |-> -EINVAL,
              acc   |-> <<RD(NI16550_PCR_OFFSET, pcr0)>>]
        ELSE [hw    |-> serial_out(h, NI16550_PCR_OFFSET, pcr2),
              rs485 |-> cfg,
              ret   |-> 0,
              acc   |-> <<RD(NI16550_PCR_OFFSET, pcr0),
                          WR(NI16550_PCR_OFFSET, pcr2)>>]

\* Slip: the transceiver enable bit cleared along with the wire-mode field
ni16550_config_rs485_ClearsEnable(h, cache, cfg) ==
    LET pcr0 == serial_in(h, NI16550_PCR_OFFSET)
        pcr1 == BitAnd(pcr0, BitNot8(NI16550_PCR_WIRE_MODE_MASK
                                     + NI16550_PCR_TXVR_ENABLE_BIT))
        pcr2 == BitOr(pcr1, WireModeBits(cfg.flags))
    IN  IF InvalidTwoWire(cfg.flags)
        THEN [hw    |-> h,
              rs485 |-> cache,
              ret   |-> -EINVAL,
              acc   |-> <<RD(NI16550_PCR_OFFSET, pcr0)>>]
        ELSE [hw    |-> serial_out(h, NI16550_PCR_OFFSET, pcr2),
              rs485 |-> cfg,
              ret   |-> 0,
              acc   |-> <<RD(NI16550_PCR_OFFSET, pcr0),
                          WR(NI16550_PCR_OFFSET, pcr2)>>]

\* struct serial_rs485 *rs485 is never NULL here (BUG_ON, line 102).
ni16550_config_rs485(h, cache, cfg) ==
    LET pcr0 == serial_in(h, NI16550_PCR_OFFSET)
        pcr1 == BitAnd(pcr0, BitNot8(NI16550_PCR_WIRE_MODE_MASK))
        pcr2 == BitOr(pcr1, WireModeBits(cfg.flags))
    IN  IF InvalidTwoWire(cfg.flags)
        THEN [hw    |-> h,
              rs485 |-> cache,
              ret   |-> -EINVAL,
              acc   |-> <<RD(NI16550_PCR_OFFSET, pcr0)>>]
        ELSE [hw    |-> serial_out(h, NI16550_PCR_OFFSET, pcr2),
              rs485 |-> cfg,
              ret   |-> 0,
              acc   |-> <<RD(NI16550_PCR_OFFSET, pcr0),
                          WR(NI16550_PCR_OFFSET, pcr2)>>]

\* Slip: PCR read where PMR is meant
is_rs232_mode_ReadsPcr(h) ==
    LET pmr == inb(h, NI16550_PCR_OFFSET)
        cap == BitAnd(pmr, NI16550_PMR_CAP_MASK)
        res == IF cap = NI16550_PMR_NOT_IMPL
               THEN FALSE
               ELSE IF cap = NI16550_PMR_CAP_DUAL
                    THEN BitAnd(pmr, NI16550_PMR_MODE_MASK) = NI16550_PMR_MODE_RS232
                    ELSE cap = NI16550_PMR_CAP_RS232
    IN  [hw  |-> h,
         ret |-> res,
         acc |-> <<RD(NI16550_PCR_OFFSET, pmr)>>]

\* Slip: an unimplemented PMR taken for an RS-232 port
is_rs232_mode_DefaultRs232(h) ==
    LET pmr == inb(h, NI16550_PMR_OFFSET)
        cap == BitAnd(pmr, NI16550_PMR_CAP_MASK)
        res == IF cap = NI16550_PMR_NOT_IMPL
               THEN TRUE
               ELSE IF cap = NI16550_PMR_CAP_DUAL
                    THEN BitAnd(pmr, NI16550_PMR_MODE_MASK) = NI16550_PMR_MODE_RS232
                    ELSE cap = NI16550_PMR_CAP_RS232
    IN  [hw  |-> h,
         ret |-> res,
         acc |-> <<RD(NI16550_PMR_OFFSET, pmr)>>]

\* Slip: the mode bit compared with NI16550_PMR_MODE_RS485
is_rs232_mode_ModeInverted(h) ==
    LET pmr == inb(h, NI16550_PMR_OFFSET)
        cap == BitAnd(pmr, NI16550_PMR_CAP_MASK)
        res == IF cap = NI16550_PMR_NOT_IMPL
               THEN FALSE
               ELSE IF cap = NI16550_PMR_CAP_DUAL
                    THEN BitAnd(pmr, NI16550_PMR_MODE_MASK) = NI16550_PMR_MODE_RS485
                    ELSE cap = NI16550_PMR_CAP_RS232
    IN  [hw  |-> h,
         ret |-> res,
         acc |-> <<RD(NI16550_PMR_OFFSET, pmr)>>]

\* Slip: the mode bit read on every implemented port, dual-mode or not
is_rs232_mode_ModeBitAlways(h) ==
    LET pmr == inb(h, NI16550_PMR_OFFSET)
        cap == BitAnd(pmr, NI16550_PMR_CAP_MASK)
        res == IF cap = NI16550_PMR_NOT_IMPL
               THEN FALSE
               ELSE BitAnd(pmr, NI16550_PMR_MODE_MASK) = NI16550_PMR_MODE_RS232
    IN  [hw  |-> h,
         ret |-> res,
         acc |-> <<RD(NI16550_PMR_OFFSET, pmr)>>]

\* Returns a bool; the one read of PMR is its only access.
is_rs232_mode(h) ==
    LET pmr == inb(h, NI16550_PMR_OFFSET)
        cap == BitAnd(pmr, NI16550_PMR_CAP_MASK)
        res == IF cap = NI16550_PMR_NOT_IMPL
               THEN FALSE
               ELSE IF cap = NI16550_PMR_CAP_DUAL
                    THEN BitAnd(pmr, NI16550_PMR_MODE_MASK) = NI16550_PMR_MODE_RS232
                    ELSE cap = NI16550_PMR_CAP_RS232
    IN  [hw  |-> h,
         ret |-> res,
         acc |-> <<RD(NI16550_PMR_OFFSET, pmr)>>]

\* Slip: SCR and ICR written before LCR is restored
ni16550_config_prescaler_RestoreLast(h, prescaler) ==
    LET lcr_value == inb(h, UART_LCR)
        h1   == outb(h, UART_LCR_CONF_MODE_B, UART_LCR)
        efr0 == inb(h1, UART_EFR)
        efr_value == BitOr(efr0, UART_EFR_ECB)
        h2   == outb(h1, efr_value, UART_EFR)
        h3   == outb(h2, UART_CPR, UART_SCR)
        h4   == outb(h3, prescaler, UART_ICR)
        h5   == outb(h4, lcr_value, UART_LCR)
    IN  [hw  |-> h5,
         ret |-> 0,
         acc |-> <<RD(UART_LCR, lcr_value),
                   WR(UART_LCR, UART_LCR_CONF_MODE_B),
                   RD(UART_EFR, efr0),
                   WR(UART_EFR, efr_value),
                   WR(UART_SCR, UART_CPR),
                   WR(UART_ICR, prescaler),
                   WR(UART_LCR, lcr_value)>>]

\* Slip: LCR never restored
ni16550_config_prescaler_NoRestore(h, prescaler) ==
    LET lcr_value == inb(h, UART_LCR)
        h1   == outb(h, UART_LCR_CONF_MODE_B, UART_LCR)
        efr0 == inb(h1, UART_EFR)
        efr_value == BitOr(efr0, UART_EFR_ECB)
        h2   == outb(h1, efr_value, UART_EFR)
        h4   == outb(h2, UART_CPR, UART_SCR)
        h5   == outb(h4, prescaler, UART_ICR)
    IN  [hw  |-> h5,
         ret |-> 0,
         acc |-> <<RD(UART_LCR, lcr_value),
                   WR(UART_LCR, UART_LCR_CONF_MODE_B),
                   RD(UART_EFR, efr0),
                   WR(UART_EFR, efr_value),
                   WR(UART_SCR, UART_CPR),
                   WR(UART_ICR, prescaler)>>]

\* Slip: "efr_value = UART_EFR_ECB" for "efr_value |= UART_EFR_ECB"
ni16550_config_prescaler_EfrAssign(h, prescaler) ==
    LET lcr_value == inb(h, UART_LCR)
        h1   == outb(h, UART_LCR_CONF_MODE_B, UART_LCR)
        efr0 == inb(h1, UART_EFR)
        efr_value == UART_EFR_ECB
        h2   == outb(h1, efr_value, UART_EFR)
        h3   == outb(h2, lcr_value, UART_LCR)
        h4   == outb(h3, UART_CPR, UART_SCR)
        h5   == outb(h4, prescaler, UART_ICR)
    IN  [hw  |-> h5,
         ret |-> 0,
         acc |-> <<RD(UART_LCR, lcr_value),
                   WR(UART_LCR, UART_LCR_CONF_MODE_B),
                   RD(UART_EFR, efr0),
                   WR(UART_EFR, efr_value),
                   WR(UART_LCR, lcr_value),
                   WR(UART_SCR, UART_CPR),
                   WR(UART_ICR, prescaler)>>]

\* Slip: "efr_value ^= UART_EFR_ECB" for "efr_value |= UART_EFR_ECB"
ni16550_config_prescaler_EfrToggle(h, prescaler) ==
    LET lcr_value == inb(h, UART_LCR)
        h1   == outb(h, UART_LCR_CONF_MODE_B, UART_LCR)
        efr0 == inb(h1, UART_EFR)
        efr_value == IF BitAnd(efr0, UART_EFR_ECB) = 0
                     THEN efr0 + UART_EFR_ECB
                     ELSE efr0 - UART_EFR_ECB
        h2   == outb(h1, efr_value, UART_EFR)
        h3   == outb(h2, lcr_value, UART_LCR)
        h4   == outb(h3, UART_CPR, UART_SCR)
        h5   == outb(h4, prescaler, UART_ICR)
    IN  [hw  |-> h5,
         ret |-> 0,
         acc |-> <<RD(UART_LCR, lcr_value),
                   WR(UART_LCR, UART_LCR_CONF_MODE_B),
                   RD(UART_EFR, efr0),
                   WR(UART_EFR, efr_value),
                   WR(UART_LCR, lcr_value),
                   WR(UART_SCR, UART_CPR),
                   WR(UART_ICR, prescaler)>>]

ni16550_config_prescaler(h, prescaler) ==
    LET lcr_value == inb(h, UART_LCR)
        h1   == outb(h, UART_LCR_CONF_MODE_B, UART_LCR)
        efr0 == inb(h1, UART_EFR)
        efr_value == BitOr(efr0, UART_EFR_ECB)
        h2   == outb(h1, efr_value, UART_EFR)
        h3   == outb(h2, lcr_value, UART_LCR)
        h4   == outb(h3, UART_CPR, UART_SCR)
        h5   == outb(h4, prescaler, UART_ICR)
    IN  [hw  |-> h5,
         ret |-> 0,
         acc |-> <<RD(UART_LCR, lcr_value),
                   WR(UART_LCR, UART_LCR_CONF_MODE_B),
                   RD(UART_EFR, efr0),
                   WR(UART_EFR, efr_value),
                   WR(UART_LCR, lcr_value),
                   WR(UART_SCR, UART_CPR),
                   WR(UART_ICR, prescaler)>>]

\* Slip: the default flags name echo mode
ni16550_port_setup_Echo(cache) ==
    [cache EXCEPT !.flags = SER_RS485_ENABLED + SER_RS485_RX_DURING_TX]

\* Slip: SER_RS485_RTS_ON_SEND left out of the default flags
ni16550_port_setup_NoRts(cache) ==
    [cache EXCEPT !.flags = SER_RS485_ENABLED]

\* Slip: efr_value written back to LCR where lcr_value is meant
PrescalerStep_RestoresEfr(h, l) ==
    CASE l.pc = 1 ->
           [hw  |-> h,
            loc |-> [l EXCEPT !.lcr_value = inb(h, UART_LCR), !.pc = 2],
            acc |-> RD(UART_LCR, inb(h, UART_LCR))]
      [] l.pc = 2 ->
           [hw  |-> outb(h, UART_LCR_CONF_MODE_B, UART_LCR),
            loc |-> [l EXCEPT !.pc = 3],
            acc |-> WR(UART_LCR, UART_LCR_CONF_MODE_B)]
      [] l.pc = 3 ->
           [hw  |-> h,
            loc |-> [l EXCEPT !.efr_value = BitOr(inb(h, UART_EFR), UART_EFR_ECB),
                              !.pc = 4],
            acc |-> RD(UART_EFR, inb(h, UART_EFR))]
      [] l.pc = 4 ->
           [hw  |-> outb(h, l.efr_value, UART_EFR),
            loc |-> [l EXCEPT !.pc = 5],
            acc |-> WR(UART_EFR, l.efr_value)]
      [] l.pc = 5 ->
           [hw  |-> outb(h, l.efr_value, UART_LCR),
            loc |-> [l EXCEPT !.pc = 6],
            acc |-> WR(UART_LCR, l.efr_value)]
      [] l.pc = 6 ->
           [hw  |-> outb(h, UART_CPR, UART_SCR),
            loc |-> [l EXCEPT !.pc = 7],
            acc |-> WR(UART_SCR, UART_CPR)]
      [] l.pc = 7 ->
           [hw  |-> outb(h, l.prescaler, UART_ICR),
            loc |-> [l EXCEPT !.pc = 8],
            acc |-> WR(UART_ICR, l.prescaler)]

\* ni16550_config_prescaler one register access at a time.  l holds the
\* caller's position and locals: pc = 1..7 is the access it makes next
\* (lines 178, 179, 183, 186, 189, 192, 193), pc = 8 is returned.
PrescalerStep(h, l) ==
    CASE l.pc = 1 ->
           [hw  |-> h,
            loc |-> [l EXCEPT !.lcr_value = inb(h, UART_LCR), !.pc = 2],
            acc |-> RD(UART_LCR, inb(h, UART_LCR))]
      [] l.pc = 2 ->
           [hw  |-> outb(h, UART_LCR_CONF_MODE_B, UART_LCR),
            loc |-> [l EXCEPT !.pc = 3],
            acc |-> WR(UART_LCR, UART_LCR_CONF_MODE_B)]
      [] l.pc = 3 ->
           [hw  |-> h,
            loc |-> [l EXCEPT !.efr_value = BitOr(inb(h, UART_EFR), UART_EFR_ECB),
                              !.pc = 4],
            acc |-> RD(UART_EFR, inb(h, UART_EFR))]
      [] l.pc = 4 ->
           [hw  |-> outb(h, l.efr_value, UART_EFR),
            loc |-> [l EXCEPT !.pc = 5],
            acc |-> WR(UART_EFR, l.efr_value)]
      [] l.pc = 5 ->
           [hw  |-> outb(h, l.lcr_value, UART_LCR),
            loc |-> [l EXCEPT !.pc = 6],
            acc |-> WR(UART_LCR, l.lcr_value)]
      [] l.pc = 6 ->
           [hw  |-> outb(h, UART_CPR, UART_SCR),
            loc |-> [l EXCEPT !.pc = 7],
            acc |-> WR(UART_SCR, UART_CPR)]
      [] l.pc = 7 ->
           [hw  |-> outb(h, l.prescaler, UART_ICR),
            loc |-> [l EXCEPT !.pc = 8],
            acc |-> WR(UART_ICR, l.prescaler)]

\* What ni16550_port_setup leaves in port->rs485: only .flags is assigned.
ni16550_port_setup(cache) ==
    [cache EXCEPT !.flags = SER_RS485_ENABLED + SER_RS485_RTS_ON_SEND]

----------------------------------------------------------------------------
(* The port as a state machine                                             *)

NoArg == [none |-> TRUE]

Snapshot == [hw |-> hw, rs485 |-> rs485]

\* What is remembered of a port setup: PCR, which setup does not touch,
\* and whether a configure has succeeded since (ok)
SetupRecord(ok) == [pcr |-> hw["PCR"], ok |-> ok]

\* A register file with the given PCR, PMR and LCR; the rest reads zero
\* until written.
RegFile(pcr, pmr, lcr) ==
    [r \in RegNames |->
        CASE r = "PCR" -> pcr
          [] r = "PMR" -> pmr
          [] r = "LCR" -> lcr
          [] OTHER -> 0]

\* LCR as the 8250 core leaves it: 8 data bits, no parity, one stop bit
LcrStart == {3}

\* PCR values a port is brought up with: all clear, the power-on 2-wire
\* auto mode (alone, with the transceiver enabled, terminated, both), and
\* patterns in the bits the driver does not manage.
PcrStart == {0, 3, 11, 67, 75, 180, 247, 255}

\* The callers that may be inside ni16550_config_prescaler at once
Callers == {1, 2}

\* A caller that has not entered ni16550_config_prescaler
Idle == [pc |-> 0, lcr_value |-> 0, efr_value |-> 0, prescaler |-> 0]

\* Every call is made with the port serialised and runs to its end
Serialised ==
    /\ excl = TRUE
    /\ proc = [c \in Callers |-> Idle]

\* History kept with every call
Called(name, a, r) ==
    /\ op' = name
    /\ arg' = a
    /\ ret' = r.ret
    /\ acc' = r.acc
    /\ pre' = Snapshot
    /\ UNCHANGED <<start, excl, proc>>

\* A freshly allocated uart_port: a zeroed rs485 cache, no operations
\* bound yet.
Init ==
    /\ \E pcr \in PcrStart, lcr \in LcrStart :
          hw = RegFile(pcr, NI16550_PMR_CAP_RS485, lcr)
    /\ rs485 = [flags |-> 0, delay_rts_before_send |-> 0, delay_rts_after_send |-> 0]
    /\ bound = FALSE
    /\ op = "none"
    /\ arg = NoArg
    /\ ret = 0
    /\ acc = <<>>
    /\ pre = Snapshot
    /\ start = Snapshot
    /\ lastok = <<>>
    /\ atsetup = SetupRecord(FALSE)
    /\ detect = <<>>
    /\ Serialised

\* ni16550_port_setup may be called on a port in any state, set up before
\* or not: it assigns the two operation pointers and the cached flags and
\* nothing else.
PortSetup ==
    /\ bound' = TRUE
    /\ rs485' = ni16550_port_setup(rs485)
    /\ atsetup' = [pcr |-> hw["PCR"], ok |-> FALSE]
    /\ Called("setup", NoArg, [ret |-> 0, acc |-> <<>>])
    /\ UNCHANGED <<hw, lastok, detect>>

EnableTransceivers ==
    /\ bound
    /\ \E r \in {ni16550_enable_transceivers(hw)} :
         /\ hw' = r.hw
         /\ Called("enable", NoArg, r)
    /\ UNCHANGED <<rs485, bound, lastok, atsetup, detect>>

DisableTransceivers ==
    /\ bound
    /\ \E r \in {ni16550_disable_transceivers(hw)} :
         /\ hw' = r.hw
         /\ Called("disable", NoArg, r)
    /\ UNCHANGED <<rs485, bound, lastok, atsetup, detect>>

ConfigRs485 ==
    /\ bound
    /\ \E cfg \in Configs :
         \E r \in {ni16550_config_rs485(hw, rs485, cfg)} :
            /\ hw' = r.hw
            /\ rs485' = r.rs485
            /\ lastok' = IF r.ret = 0 THEN <<cfg>> ELSE lastok
            /\ atsetup' = [atsetup EXCEPT !.ok = @ \/ r.ret = 0]
            /\ Called("config", cfg, r)
    /\ UNCHANGED <<bound, detect>>

IsRs232Mode ==
    /\ \E r \in {is_rs232_mode(hw)} :
         /\ hw' = r.hw
         /\ Called("rs232", NoArg, r)
    /\ UNCHANGED <<rs485, bound, lastok, atsetup, detect>>

ConfigPrescaler ==
    /\ \E p \in Prescalers :
         \E r \in {ni16550_config_prescaler(hw, p)} :
            /\ hw' = r.hw
            /\ Called("prescaler", [prescaler |-> p], r)
    /\ UNCHANGED <<rs485, bound, lastok, atsetup, detect>>

Next ==
    \/ PortSetup
    \/ EnableTransceivers
    \/ DisableTransceivers
    \/ ConfigRs485
    \/ IsRs232Mode
    \/ ConfigPrescaler

Spec == Init /\ [][Next]_vars

----------------------------------------------------------------------------
(* One call of a bound operation, from every PCR byte and every cached     *)
(* configuration the port can hold                                         *)

Accepted == {c \in Configs : ~InvalidTwoWire(c.flags)}

InitCall ==
    /\ \E pcr \in Byte, lcr \in LcrStart :
          hw = RegFile(pcr, NI16550_PMR_CAP_RS485, lcr)
    /\ rs485 \in Accepted
    /\ bound = TRUE
    /\ op = "none"
    /\ arg = NoArg
    /\ ret = 0
    /\ acc = <<>>
    /\ pre = Snapshot
    /\ start = Snapshot
    /\ lastok = <<rs485>>
    /\ atsetup = SetupRecord(TRUE)
    /\ detect = <<>>
    /\ Serialised

FirstEnable == op = "none" /\ EnableTransceivers

FirstDisable == op = "none" /\ DisableTransceivers

FirstConfig == op = "none" /\ ConfigRs485

NextCall ==
    \/ FirstEnable
    \/ FirstDisable
    \/ FirstConfig

SpecCall == InitCall /\ [][NextCall]_vars

----------------------------------------------------------------------------
(* Enable and disable calls alone, in any order, from every PCR byte       *)

InitTxvr ==
    /\ InitCall
    /\ rs485.flags = SER_RS485_ENABLED + SER_RS485_RTS_ON_SEND

NextTxvr ==
    \/ EnableTransceivers
    \/ DisableTransceivers

SpecTxvr == InitTxvr /\ [][NextTxvr]_vars

----------------------------------------------------------------------------
(* The capability detector on every PMR byte                               *)

InitPmr ==
    /\ \E pmr \in Byte, lcr \in LcrStart :
          hw = RegFile(NI16550_PCR_AUTO_RS485, pmr, lcr)
    /\ rs485 = [flags |-> 0, delay_rts_before_send |-> 0, delay_rts_after_send |-> 0]
    /\ bound = FALSE
    /\ op = "none"
    /\ arg = NoArg
    /\ ret = 0
    /\ acc = <<>>
    /\ pre = Snapshot
    /\ start = Snapshot
    /\ lastok = <<>>
    /\ atsetup = SetupRecord(FALSE)
    /\ detect = <<>>
    /\ Serialised

NextPmr == IsRs232Mode

SpecPmr == InitPmr /\ [][NextPmr]_vars

----------------------------------------------------------------------------
(* The capability detector called again and again on a port of every       *)
(* capability class, with calls that change the other registers and the    *)
(* cache in between                                                        *)

\* PMR as the board straps it: each capability class (not implemented,
\* RS-232 only, RS-485 only, dual) with the mode bit clear and set, and
\* with the bits the driver does not read set
PmrStart == {0, 1, 2, 3, 16, 17, 18, 19, 227, 236, 243, 252}

InitDetect ==
    /\ \E pmr \in PmrStart, lcr \in LcrStart :
          hw = RegFile(NI16550_PCR_AUTO_RS485, pmr, lcr)
    /\ rs485 \in {c \in Configs : c.flags = SER_RS485_ENABLED + SER_RS485_RTS_ON_SEND
                                  /\ c.delay_rts_before_send = 0}
    /\ bound = TRUE
    /\ op = "none"
    /\ arg = NoArg
    /\ ret = 0
    /\ acc = <<>>
    /\ pre = Snapshot
    /\ start = Snapshot
    /\ lastok = <<>>
    /\ atsetup = SetupRecord(FALSE)
    /\ detect = <<>>
    /\ Serialised

\* is_rs232_mode, its result kept beside that of the call before it
DetectorCall ==
    /\ \E r \in {is_rs232_mode(hw)} :
         /\ hw' = r.hw
         /\ detect' = SubSeq(<<[hw |-> hw, rs485 |-> rs485, ret |-> r.ret]>>
                                 \o detect, 1, IF detect = <<>> THEN 1 ELSE 2)
         /\ Called("rs232", NoArg, r)
    /\ UNCHANGED <<rs485, bound, lastok, atsetup>>

\* The state the latest detector call left, or the initial one
Detected ==
    IF detect = <<>> THEN start
    ELSE [hw |-> detect[1].hw, rs485 |-> detect[1].rs485]

\* At most two other calls are made between one detector call and the next
Between == op \in {"none", "rs232"} \/ pre = Detected

DetectEnable == Between /\ EnableTransceivers

DetectDisable == Between /\ DisableTransceivers

\* configure with every combination of the flags, one pair of timings
DetectConfig ==
    /\ Between
    /\ ConfigRs485
    /\ arg'.delay_rts_before_send = 0

DetectPrescaler == Between /\ ConfigPrescaler

NextDetect ==
    \/ DetectorCall
    \/ DetectEnable
    \/ DetectDisable
    \/ DetectConfig
    \/ DetectPrescaler

SpecDetect == InitDetect /\ [][NextDetect]_vars

----------------------------------------------------------------------------
(* ni16550_config_prescaler called once, then once more with the same      *)
(* byte, from every LCR byte and with every prescaler byte                 *)

\* EFR as the call finds it: clear, enhanced mode already enabled, and
\* every bit but the enable bit and bit 5 set
EfrStart == {0, 16, 207}

InitPrescaler ==
    /\ \E lcr \in Byte, efr \in EfrStart :
          hw = [RegFile(NI16550_PCR_AUTO_RS485, NI16550_PMR_CAP_RS485, lcr)
                    EXCEPT !["EFR"] = efr]
    /\ rs485 = [flags |-> 0, delay_rts_before_send |-> 0, delay_rts_after_send |-> 0]
    /\ bound = FALSE
    /\ op = "none"
    /\ arg = NoArg
    /\ ret = 0
    /\ acc = <<>>
    /\ pre = Snapshot
    /\ start = Snapshot
    /\ lastok = <<>>
    /\ atsetup = SetupRecord(FALSE)
    /\ detect = <<>>
    /\ Serialised

PrescalerCall(p) ==
    /\ \E r \in {ni16550_config_prescaler(hw, p)} :
          /\ hw' = r.hw
          /\ Called("prescaler", [prescaler |-> p], r)
    /\ UNCHANGED <<rs485, bound, lastok, atsetup, detect>>

FirstPrescaler ==
    /\ op = "none"
    /\ \E p \in Byte : PrescalerCall(p)

RepeatPrescaler ==
    /\ op = "prescaler"
    /\ pre = start
    /\ PrescalerCall(arg.prescaler)

NextPrescaler ==
    \/ FirstPrescaler
    \/ RepeatPrescaler

SpecPrescaler == InitPrescaler /\ [][NextPrescaler]_vars

----------------------------------------------------------------------------
(* A transceiver call and a successful configure, in either order, on a    *)
(* port that has just been set up, from every PCR byte                     *)

InitPair ==
    /\ \E pcr \in Byte, lcr \in LcrStart :
          hw = RegFile(pcr, NI16550_PMR_CAP_RS485, lcr)
    /\ rs485 \in {c \in Configs : c.flags = SER_RS485_ENABLED + SER_RS485_RTS_ON_SEND}
    /\ bound = TRUE
    /\ op = "none"
    /\ arg = NoArg
    /\ ret = 0
    /\ acc = <<>>
    /\ pre = Snapshot
    /\ start = Snapshot
    /\ lastok = <<>>
    /\ atsetup = SetupRecord(FALSE)
    /\ detect = <<>>
    /\ Serialised

\* configure, until one call has succeeded
PairConfig == lastok = <<>> /\ ConfigRs485

\* enable or disable, not twice in a row
PairEnable == op \notin {"enable", "disable"} /\ EnableTransceivers

PairDisable == op \notin {"enable", "disable"} /\ DisableTransceivers

NextPair ==
    \/ PairConfig
    \/ PairEnable
    \/ PairDisable

SpecPair == InitPair /\ [][NextPair]_vars

----------------------------------------------------------------------------
(* Two callers of ni16550_config_prescaler on one port, one register       *)
(* access at a time, with and without the caller's port-wide exclusion     *)

InitRace ==
    /\ \E lcr \in LcrStart, efr \in EfrStart :
          hw = [RegFile(NI16550_PCR_AUTO_RS485, NI16550_PMR_CAP_RS485, lcr)
                    EXCEPT !["EFR"] = efr]
    /\ rs485 = [flags |-> 0, delay_rts_before_send |-> 0, delay_rts_after_send |-> 0]
    /\ bound = FALSE
    /\ op = "none"
    /\ arg = NoArg
    /\ ret = 0
    /\ acc = <<>>
    /\ pre = Snapshot
    /\ start = Snapshot
    /\ lastok = <<>>
    /\ atsetup = SetupRecord(FALSE)
    /\ detect = <<>>
    /\ excl \in BOOLEAN
    /\ proc = [c \in Callers |-> Idle]

\* Caller c is between its first access and its return
Inside(c) == proc[c].pc \in 1..7

\* Caller c enters the function; under the exclusion only when no other
\* caller is inside
PrescalerEnter(c) ==
    /\ proc[c].pc = 0
    /\ excl => \A d \in Callers \ {c} : ~Inside(d)
    /\ \E p \in Prescalers :
          proc' = [proc EXCEPT ![c] = [Idle EXCEPT !.pc = 1, !.prescaler = p]]
    /\ UNCHANGED <<hw, rs485, bound, op, arg, ret, acc, pre, start, lastok,
                   atsetup, detect, excl>>

\* Caller c makes its next register access
PrescalerAccess(c) ==
    /\ Inside(c)
    /\ \E r \in {PrescalerStep(hw, proc[c])} :
          /\ hw' = r.hw
          /\ proc' = [proc EXCEPT ![c] = r.loc]
          /\ acc' = Append(acc, r.acc)
    /\ op' = "prescaler_access"
    /\ arg' = [caller |-> c]
    /\ UNCHANGED <<rs485, bound, ret, pre, start, lastok, atsetup, detect,
                   excl>>

NextRace ==
    \/ \E c \in Callers : PrescalerEnter(c)
    \/ \E c \in Callers : PrescalerAccess(c)

SpecRace == InitRace /\ [][NextRace]_vars

----------------------------------------------------------------------------
(* Vocabulary of the properties, independent of the driver's definitions   *)

\* Bit i of x
Bit(x, i) == (x \div (2 ^ i)) % 2

\* PCR[1:0]
WireField(x) == x % 4

\* The bits of a byte above the wire-mode field, PCR[7:2]
AboveWireField(x) == x \div 4

\* x with bit 3 forced to b
WithBit3(x, b) == x - 8 * Bit(x, 3) + 8 * b

\* Flag tests on the 32-bit flags word: ENABLED is bit 0, RTS_ON_SEND bit 1,
\* RX_DURING_TX bit 4
Enabled(cfg) == Bit(cfg.flags, 0) = 1

RtsOnSend(cfg) == Bit(cfg.flags, 1) = 1

RxDuringTx(cfg) == Bit(cfg.flags, 4) = 1

Writes(log) == {i \in 1..Len(log) : log[i].kind = "w"}

OthersUnchanged(names) == \A r \in RegNames \ names : hw[r] = pre.hw[r]

----------------------------------------------------------------------------
(* C1..C10                                                                 *)

\* C1: a configure whose flags have ENABLED, RX_DURING_TX and RTS_ON_SEND
\* all set returns -EINVAL, writes no register and leaves the cached
\* configuration as it was, whatever PCR and the cache held.
C1_RejectedConfigure ==
    (op = "config" /\ Enabled(arg) /\ RxDuringTx(arg) /\ RtsOnSend(arg))
        => /\ ret = -22
           /\ Writes(acc) = {}
           /\ hw = pre.hw
           /\ rs485 = pre.rs485

C1_Witness ==
    /\ op = "config"
    /\ Enabled(arg) /\ RxDuringTx(arg) /\ RtsOnSend(arg)
    /\ pre.hw["PCR"] = 254
    /\ rs485.flags = 17
    /\ rs485 # arg

\* C2: in every state after ni16550_port_setup (the latest one, when it
\* has run more than once) the cached configuration is, as a whole record,
\* the argument of the most recent configure that has returned success
\* since, or carries the setup default flags when none has; a rejected
\* configure leaves it as it was.
C2_CacheIsLastAccepted ==
    /\ bound =>
          IF atsetup.ok
          THEN lastok # <<>> /\ rs485 = lastok[1]
          ELSE /\ Enabled(rs485) /\ RtsOnSend(rs485) /\ ~RxDuringTx(rs485)
               /\ rs485.flags = 3
    /\ (op = "config" /\ ret # 0) => rs485 = pre.rs485

\* A rejected configure after an accepted one, on a port that was set up
\* again after its PCR had been changed
C2_Witness ==
    /\ op = "config"
    /\ ret # 0
    /\ atsetup.ok
    /\ atsetup.pcr # start.hw["PCR"]
    /\ lastok # <<>>
    /\ rs485 = lastok[1]
    /\ rs485.delay_rts_before_send # arg.delay_rts_before_send
    /\ rs485.delay_rts_before_send # start.rs485.delay_rts_before_send
    /\ hw["SCR"] = 1

\* C3: after a successful configure PCR[1:0] is RS-422 (0) if ENABLED is
\* clear, else echo (1) if RX_DURING_TX is set, else auto (3) if
\* RTS_ON_SEND is set, else DTR (2), whatever PCR[1:0] held before.
C3_WireModeEncoding ==
    (op = "config" /\ ret = 0)
        => WireField(hw["PCR"]) =
              IF ~Enabled(arg) THEN 0
              ELSE IF RxDuringTx(arg) THEN 1
              ELSE IF RtsOnSend(arg) THEN 3
              ELSE 2

C3_Witness ==
    /\ op = "config"
    /\ ret = 0
    /\ arg.flags = 1
    /\ WireField(pre.hw["PCR"]) = 1
    /\ WireField(hw["PCR"]) = 2

\* C4: a successful configure leaves PCR[7:2] as it was, among them the
\* transceiver enable bit 3 and the termination bit 6, and reads and writes
\* no register but PCR.
C4_ConfigureFrame ==
    (op = "config" /\ ret = 0)
        => /\ AboveWireField(hw["PCR"]) = AboveWireField(pre.hw["PCR"])
           /\ \A i \in 1..Len(acc) : acc[i].off = 15
           /\ OthersUnchanged({"PCR"})

C4_Witness ==
    /\ op = "config"
    /\ ret = 0
    /\ pre.hw["PCR"] = 73
    /\ hw["PCR"] = 75

\* C5: a configure with ENABLED clear is never rejected, whatever
\* RX_DURING_TX and RTS_ON_SEND are: it returns 0 and PCR[1:0] reads back
\* as RS-422 (0).
C5_DisabledIsRs422 ==
    (op = "config" /\ ~Enabled(arg))
        => /\ ret = 0
           /\ WireField(hw["PCR"]) = 0
           /\ rs485 = arg

C5_Witness ==
    /\ op = "config"
    /\ arg.flags = 18
    /\ WireField(pre.hw["PCR"]) = 3
    /\ ret = 0

\* C6: enable reads PCR once and then writes it once with bit 3 set,
\* disable does the same with bit 3 cleared; every other PCR bit and every
\* other register is written back unchanged, the cache is not touched and
\* both return 0.
C6_TransceiverReadModifyWrite ==
    (op \in {"enable", "disable"})
        => LET old == pre.hw["PCR"]
               new == WithBit3(old, IF op = "enable" THEN 1 ELSE 0)
           IN  /\ acc = <<[kind |-> "r", off |-> 15, val |-> old],
                          [kind |-> "w", off |-> 15, val |-> new]>>
               /\ hw["PCR"] = new
               /\ OthersUnchanged({"PCR"})
               /\ rs485 = pre.rs485
               /\ ret = 0

C6_Witness ==
    /\ op = "disable"
    /\ pre.hw["PCR"] = 255
    /\ hw["PCR"] = 247

\* C7: after any sequence of enable and disable calls every PCR bit but
\* bit 3 is as it was before the sequence, bit 3 is set iff the last call
\* was enable, and calling the same operation once more changes nothing.
C7_EnableDisableSequences ==
    (op \in {"enable", "disable"})
        => /\ WithBit3(hw["PCR"], 0) = WithBit3(start.hw["PCR"], 0)
           /\ Bit(hw["PCR"], 3) = (IF op = "enable" THEN 1 ELSE 0)
           /\ op = "enable" => ni16550_enable_transceivers(hw).hw = hw
           /\ op = "disable" => ni16550_disable_transceivers(hw).hw = hw

C7_Witness ==
    /\ op = "enable"
    /\ start.hw["PCR"] = 71
    /\ pre.hw["PCR"] = 79
    /\ hw["PCR"] = 79

\* C8: with the capability class PMR[1:0] = 00 is_rs232_mode returns
\* false, whatever the other PMR bits are.
C8_NotImplementedIsRs485 ==
    (op = "rs232" /\ pre.hw["PMR"] % 4 = 0) => ret = FALSE

C8_Witness ==
    /\ op = "rs232"
    /\ pre.hw["PMR"] = 236
    /\ ret = FALSE

\* C9: with the capability class PMR[1:0] = 11 is_rs232_mode returns true
\* iff the mode bit PMR[4] is clear, whatever the other PMR bits are.
C9_DualModeTracksModeBit ==
    (op = "rs232" /\ pre.hw["PMR"] % 4 = 3)
        => (ret = TRUE <=> Bit(pre.hw["PMR"], 4) = 0)

C9_Witness ==
    /\ op = "rs232"
    /\ pre.hw["PMR"] = 239
    /\ ret = TRUE

\* C10: on a single-capability port is_rs232_mode ignores the mode bit:
\* true when PMR[1:0] = 01, false when PMR[1:0] = 10.
C10_SingleCapabilityIgnoresModeBit ==
    /\ (op = "rs232" /\ pre.hw["PMR"] % 4 = 1) => ret = TRUE
    /\ (op = "rs232" /\ pre.hw["PMR"] % 4 = 2) => ret = FALSE

C10_Witness ==
    /\ op = "rs232"
    /\ pre.hw["PMR"] = 17
    /\ ret = TRUE

----------------------------------------------------------------------------
(* C11..C20                                                                *)

\* x with bit 4 set
WithBit4Set(x) == x + 16 * (1 - Bit(x, 4))

\* Positions of the log at which the register at offset off is accessed
AccessesOf(log, off) == {i \in 1..Len(log) : log[i].off = off}

WritesOf(log, off) == {i \in AccessesOf(log, off) : log[i].kind = "w"}

\* What LCR holds at the moment access i of the log is made, lcr0 being
\* what it held before the first access: the last value written to offset 3
LcrAt(log, i, lcr0) ==
    LET w == {j \in WritesOf(log, 3) : j < i}
    IN  IF w = {} THEN lcr0
        ELSE log[CHOOSE j \in w : \A k \in w : k <= j].val

\* C11: ni16550_config_prescaler makes exactly these accesses in this
\* order: read LCR, write LCR := 0xBF, read EFR, write EFR := the value
\* read with bit 4 set, write LCR := the value first read, write SCR :=
\* UART_CPR, write ICR := the prescaler byte; both EFR accesses lie
\* strictly between the two LCR writes.
C11_PrescalerAccessOrder ==
    op = "prescaler"
        => /\ Len(acc) = 7
           /\ acc = <<[kind |-> "r", off |-> 3, val |-> pre.hw["LCR"]],
                      [kind |-> "w", off |-> 3, val |-> 191],
                      [kind |-> "r", off |-> 2, val |-> acc[3].val],
                      [kind |-> "w", off |-> 2, val |-> WithBit4Set(acc[3].val)],
                      [kind |-> "w", off |-> 3, val |-> pre.hw["LCR"]],
                      [kind |-> "w", off |-> 7, val |-> 1],
                      [kind |-> "w", off |-> 5, val |-> arg.prescaler]>>
           /\ \A e \in AccessesOf(acc, 2) :
                 /\ \E w \in WritesOf(acc, 3) : w < e
                 /\ \E w \in WritesOf(acc, 3) : e < w

C11_Witness ==
    /\ op = "prescaler"
    /\ pre.hw["LCR"] = 27
    /\ arg.prescaler = 200
    /\ acc[3].val = 207

\* C12 as stated: whatever byte LCR holds when ni16550_config_prescaler is
\* called, LCR does not hold 0xBF at the moments the call writes SCR and
\* ICR.
C12_UnbankedForEveryLcr ==
    op = "prescaler"
        => \A i \in WritesOf(acc, 7) \cup WritesOf(acc, 5) :
              LcrAt(acc, i, pre.hw["LCR"]) # 191

\* C12, amended: when LCR holds any byte but 0xBF on entry, LCR does not
\* hold 0xBF at the moments the call writes SCR and ICR, and the two writes
\* land in SCR and ICR of the normal register map.
C12_UnbankedUnlessEnteredBanked ==
    (op = "prescaler" /\ pre.hw["LCR"] # 191)
        => /\ WritesOf(acc, 7) # {}
           /\ WritesOf(acc, 5) # {}
           /\ \A i \in WritesOf(acc, 7) \cup WritesOf(acc, 5) :
                 LcrAt(acc, i, pre.hw["LCR"]) # 191
           /\ hw["SCR"] = 1
           /\ hw["ICR"] = arg.prescaler

C12_Witness ==
    /\ op = "prescaler"
    /\ pre.hw["LCR"] = 190
    /\ hw["SCR"] = 1
    /\ hw["ICR"] = 200

\* C15: after one ni16550_config_prescaler call LCR is what it was, EFR is
\* what it was with bit 4 set and every other bit unchanged, and PCR and
\* the cached configuration are untouched.
C15_PrescalerFrame ==
    op = "prescaler"
        => /\ hw["LCR"] = pre.hw["LCR"]
           /\ hw["EFR"] = WithBit4Set(pre.hw["EFR"])
           /\ hw["PCR"] = pre.hw["PCR"]
           /\ hw["PMR"] = pre.hw["PMR"]
           /\ rs485 = pre.rs485

C15_Witness ==
    /\ op = "prescaler"
    /\ pre.hw["LCR"] = 27
    /\ pre.hw["EFR"] = 207
    /\ hw["EFR"] = 223

\* C19: a second ni16550_config_prescaler call with the same byte, made
\* right after the first, leaves every register (LCR, EFR, SCR and the
\* register written through ICR among them) as the first call left it.
C19_PrescalerIdempotent ==
    (op = "prescaler" /\ pre # start)
        => /\ hw = pre.hw
           /\ hw = ni16550_config_prescaler(start.hw, arg.prescaler).hw

C19_Witness ==
    /\ op = "prescaler"
    /\ pre # start
    /\ start.hw["EFR"] = 207
    /\ hw["EFR"] = 223
    /\ hw["ICR"] = 200

\* C13: ni16550_port_setup binds the operations and sets the cached flags
\* to exactly ENABLED and RTS_ON_SEND without touching a register; a
\* configure with ENABLED and RX_DURING_TX made from that state succeeds,
\* PCR[1:0] reads back as echo (1) and the cache holds the new
\* configuration.
C13_SetupThenEcho ==
    /\ op = "setup"
          => /\ bound
             /\ Enabled(rs485) /\ RtsOnSend(rs485) /\ ~RxDuringTx(rs485)
             /\ rs485.flags = 3
             /\ acc = <<>>
             /\ hw = pre.hw
             /\ \A cfg \in {c \in Configs : c.flags = 17} :
                   LET r == ni16550_config_rs485(hw, rs485, cfg)
                   IN  /\ r.ret = 0
                       /\ WireField(r.hw["PCR"]) = 1
                       /\ r.rs485 = cfg
    /\ (op = "config" /\ arg.flags = 17 /\ pre.rs485.flags = 3)
          => /\ ret = 0
             /\ WireField(hw["PCR"]) = 1
             /\ rs485 = arg

C13_Witness ==
    /\ op = "config"
    /\ arg.flags = 17
    /\ pre.hw = start.hw
    /\ pre.rs485 = [start.rs485 EXCEPT !.flags = 3]
    /\ WireField(pre.hw["PCR"]) = 3
    /\ WireField(hw["PCR"]) = 1
    /\ rs485 = arg
    /\ rs485.delay_rts_before_send = 1

\* C14: is_rs232_mode reads PMR once and does nothing else: no register
\* is written and every register and the cached configuration stay as they
\* were; and of two calls that found the same PMR, whatever other calls
\* were made and whatever else changed between them, the later returns
\* what the earlier returned.
C14_DetectorIsPureRead ==
    /\ op = "rs232"
          => /\ acc = <<[kind |-> "r", off |-> 14, val |-> pre.hw["PMR"]]>>
             /\ Writes(acc) = {}
             /\ hw = pre.hw
             /\ rs485 = pre.rs485
    /\ (Len(detect) = 2 /\ detect[1].hw["PMR"] = detect[2].hw["PMR"])
          => detect[1].ret = detect[2].ret

\* Two calls on a dual-mode port in RS-232 mode, PCR, the prescaler
\* registers and the cache all changed between them
C14_Witness ==
    /\ op = "rs232"
    /\ Len(detect) = 2
    /\ detect[1].hw["PMR"] = 3
    /\ detect[2].hw["PMR"] = 3
    /\ detect[1].ret = TRUE
    /\ ret = TRUE
    /\ detect[1].hw["PCR"] # detect[2].hw["PCR"]
    /\ detect[1].hw["EFR"] # detect[2].hw["EFR"]
    /\ detect[1].rs485 # detect[2].rs485

\* PCR bits 2, 4, 5, 6 and 7
Unmanaged(x) == x - WireField(x) - 8 * Bit(x, 3)

\* C17: whatever serialised calls are made, PCR bits 2, 4, 5, 6 and 7 keep
\* the value they had at port setup (and before it, the value they had
\* from the start).
C17_UnmanagedBitsKept ==
    /\ Unmanaged(hw["PCR"]) = Unmanaged(start.hw["PCR"])
    /\ bound => Unmanaged(hw["PCR"]) = Unmanaged(atsetup.pcr)

C17_Witness ==
    /\ bound
    /\ atsetup.pcr = 180
    /\ start.hw["PCR"] = 180
    /\ hw["PCR"] = 189
    /\ hw["SCR"] = 1
    /\ op = "config"
    /\ ret = -22

\* C18: if PCR[1:0] holds 2-wire auto (3) when ni16550_port_setup runs,
\* then in every state from that setup on (until setup runs again)
\* PCR[1:0] is the encoding of the cached flags: RS-422 if ENABLED is
\* clear, else echo if RX_DURING_TX, else auto if RTS_ON_SEND, else DTR.
C18_PcrFollowsCache ==
    (bound /\ WireField(atsetup.pcr) = 3)
        => WireField(hw["PCR"]) =
              IF ~Enabled(rs485) THEN 0
              ELSE IF RxDuringTx(rs485) THEN 1
              ELSE IF RtsOnSend(rs485) THEN 3
              ELSE 2

C18_Witness ==
    /\ bound
    /\ WireField(atsetup.pcr) = 3
    /\ WireField(start.hw["PCR"]) = 3
    /\ op = "config"
    /\ ret = -22
    /\ rs485.flags = 1
    /\ WireField(hw["PCR"]) = 2
    /\ Bit(hw["PCR"], 3) # Bit(start.hw["PCR"], 3)

\* The wire-mode encoding of a configuration's flags
Encoding(cfg) ==
    IF ~Enabled(cfg) THEN 0
    ELSE IF RxDuringTx(cfg) THEN 1
    ELSE IF RtsOnSend(cfg) THEN 3
    ELSE 2

\* enable (b = 1) or disable (b = 0) applied to a register file
Transceivers(b, h) ==
    IF b = 1 THEN ni16550_enable_transceivers(h).hw
    ELSE ni16550_disable_transceivers(h).hw

\* C20: an enable or disable call and a successful configure commute.
\* After configure then enable/disable, and after enable/disable then
\* configure, PCR is its first value with bit 3 from the enable/disable
\* call and bits 1:0 from the configuration, the cache is the
\* configuration, and the state is the one the opposite order yields.
C20_TransceiverAndConfigureCommute ==
    /\ (op \in {"enable", "disable"} /\ lastok # <<>>)
          => LET b == IF op = "enable" THEN 1 ELSE 0
                 other == ni16550_config_rs485(Transceivers(b, start.hw),
                                               start.rs485, lastok[1])
             IN  /\ hw["PCR"] = Unmanaged(start.hw["PCR"]) + 8 * b
                                    + Encoding(lastok[1])
                 /\ rs485 = lastok[1]
                 /\ other.ret = 0
                 /\ other.hw = hw
                 /\ other.rs485 = rs485
    /\ (op = "config" /\ ret = 0)
          => LET b == Bit(pre.hw["PCR"], 3)
                 other == Transceivers(b,
                             ni16550_config_rs485(start.hw, start.rs485, arg).hw)
             IN  /\ hw["PCR"] = Unmanaged(start.hw["PCR"]) + 8 * b
                                    + Encoding(arg)
                 /\ rs485 = arg
                 /\ other = hw

C20_Witness ==
    /\ op = "config"
    /\ ret = 0
    /\ Bit(pre.hw["PCR"], 3) # Bit(start.hw["PCR"], 3)
    /\ WireField(hw["PCR"]) # WireField(start.hw["PCR"])
    /\ Unmanaged(hw["PCR"]) = 180
    /\ rs485 # start.rs485

\* Accesses of the log made in the wrong bank, lcr0 being what LCR held
\* before the first: EFR accessed while LCR is not 0xBF, or SCR or ICR
\* written while it is
WrongBank(log, lcr0) ==
    {i \in 1..Len(log) :
        \/ log[i].off = 2 /\ LcrAt(log, i, lcr0) # 191
        \/ log[i].kind = "w" /\ log[i].off \in {5, 7}
              /\ LcrAt(log, i, lcr0) = 191}

AllReturned == \A c \in Callers : proc[c].pc = 8

\* C16: when each ni16550_config_prescaler call runs under the caller's
\* exclusion no access is ever made in the wrong bank, and once both calls
\* have returned LCR is what it was before them and the registers are as
\* two calls one after the other leave them.  (Without the exclusion the
\* state of C16_Witness is reached.)
C16_ExclusionKeepsBanking ==
    excl
      => /\ WrongBank(acc, start.hw["LCR"]) = {}
         /\ (\A c \in Callers : ~Inside(c)) => hw["LCR"] = start.hw["LCR"]
         /\ AllReturned
               => hw = ni16550_config_prescaler(
                          ni16550_config_prescaler(start.hw, proc[1].prescaler).hw,
                          proc[2].prescaler).hw

\* Both calls have returned, their accesses interleaved: LCR is left at
\* 0xBF and accesses were made in the wrong bank.
C16_Witness ==
    /\ ~excl
    /\ AllReturned
    /\ hw["LCR"] # start.hw["LCR"]
    /\ hw["LCR"] = 191
    /\ WrongBank(acc, start.hw["LCR"]) # {}

====
